---- MODULE Spec2Model ----
(***************************************************************************)
(* The paginated listing subsystem of the headless blog front-end:         *)
(*   - the zustand pagination store (usePaginationStore),                  *)
(*   - its two seeding call sites (BlogPageContent on the server,          *)
(*     BlogPostItems' hydration effect on the client),                     *)
(*   - the slug enumeration loop (fetchAllPostSlugsDirect /                *)
(*     fetchAllPostSlugs),                                                 *)
(* against a cursor-paginated upstream listing.                            *)
(***************************************************************************)
EXTENDS Integers, Sequences, FiniteSets, TLC

\* ------------------------------------------------------------------ bounds
MaxPages == 3        \* pages of the upstream the slug enumerator walks
MaxStorePages == 2   \* pages of the upstream behind the store
MaxPageSize == 2     \* posts on one page (0 .. MaxPageSize)
MaxCalls == 3        \* invocations of fetchNextPage in one run

\* `null`, the cursor that means "from the beginning".  Cursors handed out by
\* the upstream are the positive integers (opaque to the consumer).
Null == 0

VARIABLES
  up,           \* the upstream listing, cut into pages (fixed during a run)
  items,        \* client store: items
  endCursor,    \* client store: endCursor
  hasNextPage,  \* client store: hasNextPage
  isLoading,    \* client store: isLoading
  fetches,      \* the calls of fetchNextPage's fetchFunction, in call order
  lastOp,       \* the operation that ran last
  server,       \* the store instance of the server runtime (BlogPageContent)
  props,        \* what the server render handed to the client components
  enumPc,       \* slug enumerator: position
  enumSlugs,    \* slug enumerator: local `slugs`
  enumHasNextPage, \* slug enumerator: local `hasNextPage`
  enumEndCursor,   \* slug enumerator: local `endCursor`
  enumRequests, \* slug enumerator: the `after` variable of each request sent
  enumResponses, \* slug enumerator: what each request was answered with
  svcCall,      \* service call: the function called and the response it met
  svcOutcome    \* service call: how the call ended

storeVars == <<items, endCursor, hasNextPage, isLoading>>
pageVars == <<fetches, lastOp, server, props>>
enumVars == <<enumPc, enumSlugs, enumHasNextPage, enumEndCursor,
              enumRequests, enumResponses>>
svcVars == <<svcCall, svcOutcome>>
vars == <<up, storeVars, pageVars, enumVars, svcVars>>

\* ---------------------------------------------------------------- upstream
RECURSIVE Offset(_, _)
\* Number of posts on the pages before page i, for page sizes s.
Offset(s, i) == IF i <= 1 THEN 0 ELSE Offset(s, i - 1) + s[i - 1]

\* A post node as the GraphQL queries select it: an id and a slug.
Node(n) == [id |-> n, slug |-> n]

\* The listing 1, 2, 3, ... cut into pages of the sizes s: page i carries the
\* cursor i and reports hasNextPage on every page but the last.
MkUpstream(s) ==
  [i \in 1..Len(s) |->
     [nodes |-> [j \in 1..s[i] |-> Node(Offset(s, i) + j)],
      pageInfo |-> [hasNextPage |-> i < Len(s), endCursor |-> i]]]

\* Every cut of a listing into 1..maxPages pages of minSize..MaxPageSize posts.
UpstreamsOf(maxPages, minSize) ==
  { MkUpstream(s) :
      s \in UNION { [1..k -> minSize..MaxPageSize] : k \in 1..maxPages } }

\* The listing without posts: one page, no nodes, no cursor, no next page.
EmptyListing ==
  <<[nodes |-> <<>>, pageInfo |-> [hasNextPage |-> FALSE, endCursor |-> Null]]>>

\* The post listings behind the store: pages that hold posts, or no post at all.
StoreUpstreams == UpstreamsOf(MaxStorePages, 1) \cup {EmptyListing}

\* The listings the slug enumerator walks: pages may also come back empty.
EnumUpstreams == UpstreamsOf(MaxPages, 0) \cup {EmptyListing}

RECURSIVE Flatten(_)
\* All nodes of a sequence of pages, in page order.
Flatten(pages) ==
  IF pages = <<>> THEN <<>>
  ELSE pages[1].nodes \o Flatten(Tail(pages))

\* posts(first, after): the page after cursor `after`; past the end of the
\* listing there is nothing left: no nodes, no next page, no cursor.
Posts(after) ==
  IF after < Len(up) THEN up[after + 1]
  ELSE [nodes |-> <<>>, pageInfo |-> [hasNextPage |-> FALSE, endCursor |-> Null]]

\* fetchBlogPosts(first, after) on success: the response normalised into
\* {items, endCursor, hasNextPage}.
fetchBlogPosts(after) ==
  LET result == Posts(after) IN
  [items |-> result.nodes,
   endCursor |-> result.pageInfo.endCursor,
   hasNextPage |-> result.pageInfo.hasNextPage]

\* The fetchFunction handed to fetchNextPage by the load-more control: one
\* page of posts after the cursor it is given.
fetchFunction(cursor) == fetchBlogPosts(cursor)

\* ------------------------------------------------------------------- store
InitialState ==
  [items |-> <<>>, endCursor |-> Null, hasNextPage |-> TRUE, isLoading |-> FALSE]

\* The store's four fields as one record.
State == [items |-> items, endCursor |-> endCursor,
          hasNextPage |-> hasNextPage, isLoading |-> isLoading]

Pending == { i \in DOMAIN fetches : fetches[i].st = "pending" }

\* fetchNextPage, up to its await: set isLoading, call fetchFunction with the
\* store's current endCursor.  `pre` is the store as the call found it, kept
\* while the call is outstanding.
fetchNextPage ==
  /\ Len(fetches) < MaxCalls
  /\ isLoading' = TRUE
  /\ fetches' = Append(fetches, [cursor |-> endCursor, st |-> "pending", pre |-> State])
  /\ lastOp' = "fetchNextPage"
  /\ UNCHANGED <<up, items, endCursor, hasNextPage, server, props, enumVars, svcVars>>

\* A resolution that replaces the list by the new page instead of appending.
fetchNextPageResolvedReplacing(i) ==
  /\ i \in Pending
  /\ LET page == fetchFunction(fetches[i].cursor) IN
       /\ items' = page.items
       /\ endCursor' = page.endCursor
       /\ hasNextPage' = page.hasNextPage
       /\ isLoading' = FALSE
  /\ fetches' = [fetches EXCEPT ![i].st = "ok", ![i].pre = InitialState]
  /\ lastOp' = "resolved"
  /\ UNCHANGED <<up, server, props, enumVars, svcVars>>

\* fetchNextPage, after the await, the fetch having resolved with a page.
\* A success branch that takes a page without items for the end of the listing.
fetchNextPageResolvedStoppingOnEmpty(i) ==
  /\ i \in Pending
  /\ LET page == fetchFunction(fetches[i].cursor) IN
       /\ items' = items \o page.items
       /\ endCursor' = IF page.items = <<>> THEN endCursor ELSE page.endCursor
       /\ hasNextPage' = (page.hasNextPage /\ page.items # <<>>)
       /\ isLoading' = FALSE
  /\ fetches' = [fetches EXCEPT ![i].st = "ok", ![i].pre = InitialState]
  /\ lastOp' = "resolved"
  /\ UNCHANGED <<up, server, props, enumVars, svcVars>>

fetchNextPageResolved(i) ==
  /\ i \in Pending
  /\ LET page == fetchFunction(fetches[i].cursor) IN
       /\ items' = items \o page.items
       /\ endCursor' = page.endCursor
       /\ hasNextPage' = page.hasNextPage
       /\ isLoading' = FALSE
  /\ fetches' = [fetches EXCEPT ![i].st = "ok", ![i].pre = InitialState]
  /\ lastOp' = "resolved"
  /\ UNCHANGED <<up, server, props, enumVars, svcVars>>

\* A catch branch that falls back to the empty store.
fetchNextPageRejectedClearing(i) ==
  /\ i \in Pending
  /\ items' = <<>>
  /\ endCursor' = Null
  /\ hasNextPage' = TRUE
  /\ isLoading' = FALSE
  /\ fetches' = [fetches EXCEPT ![i].st = "failed", ![i].pre = InitialState]
  /\ lastOp' = "rejected"
  /\ UNCHANGED <<up, server, props, enumVars, svcVars>>

\* A catch branch that leaves the loading flag set.
fetchNextPageRejectedStillLoading(i) ==
  /\ i \in Pending
  /\ fetches' = [fetches EXCEPT ![i].st = "failed", ![i].pre = InitialState]
  /\ lastOp' = "rejected"
  /\ UNCHANGED <<up, items, endCursor, hasNextPage, isLoading, server, props,
                 enumVars, svcVars>>

\* fetchNextPage, after the await, the fetch having rejected: the catch branch.
fetchNextPageRejected(i) ==
  /\ i \in Pending
  /\ isLoading' = FALSE
  /\ fetches' = [fetches EXCEPT ![i].st = "failed", ![i].pre = InitialState]
  /\ lastOp' = "rejected"
  /\ UNCHANGED <<up, items, endCursor, hasNextPage, server, props, enumVars, svcVars>>

\* A reset that forgets the loading flag.
resetPaginationKeepingLoading ==
  /\ items' = <<>>
  /\ endCursor' = Null
  /\ hasNextPage' = TRUE
  /\ lastOp' = "reset"
  /\ UNCHANGED <<up, isLoading, fetches, server, props, enumVars, svcVars>>

resetPagination ==
  /\ items' = <<>>
  /\ endCursor' = Null
  /\ hasNextPage' = TRUE
  /\ isLoading' = FALSE
  /\ lastOp' = "reset"
  /\ UNCHANGED <<up, fetches, server, props, enumVars, svcVars>>

\* ------------------------------------------------------------------ seeding
\* BlogPageContent (server component): fetch the first page, setState the
\* server runtime's store with it, render BlogPostItems and, when the page
\* has a next page, LoadMoreButton.
BlogPageContent ==
  /\ LET page == fetchBlogPosts(Null) IN
       /\ server' = [server EXCEPT !.items = page.items,
                                   !.endCursor = page.endCursor,
                                   !.hasNextPage = page.hasNextPage]
       /\ props' = [rendered |-> TRUE,
                    initialPosts |-> page.items,
                    initialEndCursor |-> page.endCursor,
                    hasNextPage |-> page.hasNextPage]
  /\ lastOp' = "render"
  /\ UNCHANGED <<up, storeVars, fetches, enumVars, svcVars>>

\* BlogPostItems' useEffect on the client: hydrate the store from initialPosts.
BlogPostItems ==
  /\ props.rendered
  /\ IF Len(props.initialPosts) > 0
       THEN /\ items' = props.initialPosts
            /\ endCursor' = Null
            /\ hasNextPage' = TRUE
       ELSE UNCHANGED <<items, endCursor, hasNextPage>>
  /\ lastOp' = "hydrate"
  /\ UNCHANGED <<up, isLoading, fetches, server, props, enumVars, svcVars>>

\* ------------------------------------------------------- service clients
\* An HTTP exchange as a client sees it: whether fetch() settles, the status,
\* whether response.json() parses the body, and what the body holds.  `shape`
\* says which of data / posts / nodes / pageInfo the body has, `page` is what
\* nodes and pageInfo hold where present, `post` the id of the post the body
\* carries where the client reads it (Null for none).
Statuses == {200, 404, 500}

Shapes == {"full", "noNodes", "noPageInfo", "noPosts", "noData"}

ClientPages ==
  { [nodes |-> n, pageInfo |-> [hasNextPage |-> h, endCursor |-> c]] :
      n \in {<<>>, <<Node(1)>>}, h \in BOOLEAN, c \in {Null, 1} }

Responses ==
  [transport : {"completes", "rejects"}, status : Statuses, parses : BOOLEAN,
   errors : BOOLEAN, shape : Shapes, page : ClientPages, post : {Null, 1}]

\* A JSON reply of an endpoint: its status and the post in its body.
Reply(status, p) ==
  [transport |-> "completes", status |-> status, parses |-> TRUE,
   errors |-> FALSE, shape |-> IF p = Null THEN "noData" ELSE "full",
   page |-> [nodes |-> <<>>, pageInfo |-> [hasNextPage |-> FALSE, endCursor |-> Null]],
   post |-> p]

\* response.ok: a status in the range 200-299.
Ok(r) == r.status = 200

\* How a call ends: "rejected" (the promise rejects), "returned" with a Page
\* Result or a post, "returnedUndefinedItems" (a Page Result whose items is
\* undefined), "null" (the value null), and for the page "notFound"/"rendered".
Outcome(k, its, cursor, more, p) ==
  [kind |-> k, items |-> its, endCursor |-> cursor, hasNextPage |-> more,
   post |-> p]

\* An outcome that carries no value: "rejected", "null", "notFound", "none".
Bare(k) == Outcome(k, <<>>, Null, FALSE, Null)

HasNodes(r) == r.shape \in {"full", "noPageInfo"}

HasPageInfo(r) == r.shape \in {"full", "noNodes"}

\* The GraphQL client: throws on !response.ok, then builds the result with
\* optional chaining and defaults; `errors` is not read.
graphqlFetchBlogPosts(r) ==
  IF r.transport = "rejects" THEN Bare("rejected")
  ELSE IF ~Ok(r) THEN Bare("rejected")
  ELSE IF ~r.parses THEN Bare("rejected")
  ELSE Outcome("returned",
               IF HasNodes(r) THEN r.page.nodes ELSE <<>>,
               IF HasPageInfo(r) THEN r.page.pageInfo.endCursor ELSE Null,
               IF HasPageInfo(r) THEN r.page.pageInfo.hasNextPage ELSE FALSE,
               Null)

\* The build-time GraphQL client: the same steps, the list named `posts`.
fetchBlogPostsDirect(r) ==
  IF r.transport = "rejects" THEN Bare("rejected")
  ELSE IF ~Ok(r) THEN Bare("rejected")
  ELSE IF ~r.parses THEN Bare("rejected")
  ELSE Outcome("returned",
               IF HasNodes(r) THEN r.page.nodes ELSE <<>>,
               IF HasPageInfo(r) THEN r.page.pageInfo.endCursor ELSE Null,
               IF HasPageInfo(r) THEN r.page.pageInfo.hasNextPage ELSE FALSE,
               Null)

\* The client of /api/get-all-posts: response.ok is not read; the body is
\* dereferenced without guards, so a body without data.posts or without
\* pageInfo throws a TypeError, and one without nodes gives items undefined.
apiFetchBlogPosts(r) ==
  IF r.transport = "rejects" THEN Bare("rejected")
  ELSE IF ~r.parses THEN Bare("rejected")
  ELSE IF r.shape \in {"noData", "noPosts", "noPageInfo"} THEN Bare("rejected")
  ELSE Outcome(IF HasNodes(r) THEN "returned" ELSE "returnedUndefinedItems",
               IF HasNodes(r) THEN r.page.nodes ELSE <<>>,
               r.page.pageInfo.endCursor,
               r.page.pageInfo.hasNextPage,
               Null)

\* The GraphQL single-post client: throws on !response.ok, returns
\* {post: result?.data?.post || null}.
graphqlFetchSinglePostBySlug(r) ==
  IF r.transport = "rejects" THEN Bare("rejected")
  ELSE IF ~Ok(r) THEN Bare("rejected")
  ELSE IF ~r.parses THEN Bare("rejected")
  ELSE Outcome("returned", <<>>, Null, FALSE,
               IF r.shape = "noData" THEN Null ELSE r.post)

\* GET /api/get-post-by-slug: the Post as JSON, or a not-found status; a
\* failure of the lookup is answered with a server-error status.
getPostBySlugRoute(r) ==
  LET d == graphqlFetchSinglePostBySlug(r)
  IN  IF d.kind = "rejected" THEN Reply(500, Null)
      ELSE IF d.post = Null THEN Reply(404, Null)
      ELSE Reply(200, d.post)

\* A rewrite of the endpoint client with the throw of its !response.ok branch
\* (commented out in the source) put back.
apiFetchSinglePostBySlugThrowing(r) ==
  IF r.transport = "rejects" THEN Bare("rejected")
  ELSE IF ~Ok(r) THEN Bare("rejected")
  ELSE IF ~r.parses THEN Bare("rejected")
  ELSE IF r.shape = "noData" \/ r.post = Null
    THEN Bare("null")
  ELSE Outcome("returned", <<>>, Null, FALSE, r.post)

\* The client of /api/get-post-by-slug: null on !response.ok, null when the
\* body is empty or has no id, the body otherwise.
apiFetchSinglePostBySlug(r) ==
  IF r.transport = "rejects" THEN Bare("rejected")
  ELSE IF ~Ok(r) THEN Bare("null")
  ELSE IF ~r.parses THEN Bare("rejected")
  ELSE IF r.shape = "noData" \/ r.post = Null
    THEN Bare("null")
  ELSE Outcome("returned", <<>>, Null, FALSE, r.post)

\* The single-post page: awaits the endpoint client, notFound() on a falsy
\* post, the post's content otherwise; a rejection propagates.
SinglePostOutcome(e) ==
  LET post == apiFetchSinglePostBySlug(e)
  IN  IF post.kind = "rejected" THEN Bare("rejected")
      ELSE IF post.kind = "null" THEN Bare("notFound")
      ELSE Outcome("rendered", <<>>, Null, FALSE, post.post)

\* One call of a client against one response; the clients keep no state, so
\* a behaviour looks at one call.
ServiceCall(fn, r, outcome) ==
  /\ svcCall.fn = "none"
  /\ svcCall' = [fn |-> fn, response |-> r]
  /\ svcOutcome' = outcome
  /\ UNCHANGED <<up, storeVars, pageVars, enumVars>>

CallGraphqlFetchBlogPosts ==
  \E r \in Responses : ServiceCall("graphqlFetchBlogPosts", r, graphqlFetchBlogPosts(r))

CallFetchBlogPostsDirect ==
  \E r \in Responses : ServiceCall("fetchBlogPostsDirect", r, fetchBlogPostsDirect(r))

CallApiFetchBlogPosts ==
  \E r \in Responses : ServiceCall("apiFetchBlogPosts", r, apiFetchBlogPosts(r))

CallGraphqlFetchSinglePostBySlug ==
  \E r \in Responses :
     ServiceCall("graphqlFetchSinglePostBySlug", r, graphqlFetchSinglePostBySlug(r))

CallApiFetchSinglePostBySlug ==
  \E r \in Responses :
     ServiceCall("apiFetchSinglePostBySlug", r, apiFetchSinglePostBySlug(r))

\* A request of /blog/[slug]: the page, the endpoint client, the route, the
\* GraphQL client and the upstream's response r.
SinglePost ==
  \E r \in Responses :
     ServiceCall("SinglePost", r, SinglePostOutcome(getPostBySlugRoute(r)))

\* ----------------------------------------------------------- specification
InitWith(upstreams) ==
  /\ up \in upstreams
  /\ items = InitialState.items
  /\ endCursor = InitialState.endCursor
  /\ hasNextPage = InitialState.hasNextPage
  /\ isLoading = InitialState.isLoading
  /\ fetches = <<>>
  /\ lastOp = "init"
  /\ server = InitialState
  /\ props = [rendered |-> FALSE, initialPosts |-> <<>>,
              initialEndCursor |-> Null, hasNextPage |-> FALSE]
  /\ enumPc = "idle"
  /\ enumSlugs = <<>>
  /\ enumHasNextPage = TRUE
  /\ enumEndCursor = Null
  /\ enumRequests = <<>>
  /\ enumResponses = <<>>
  /\ svcCall = [fn |-> "none", response |-> Reply(200, Null)]
  /\ svcOutcome = Bare("none")

Init == InitWith(StoreUpstreams)

Next ==
  \/ fetchNextPage
  \/ \E i \in DOMAIN fetches : fetchNextPageResolved(i)
  \/ \E i \in DOMAIN fetches : fetchNextPageRejected(i)
  \/ resetPagination
  \/ BlogPageContent
  \/ BlogPostItems

Spec == Init /\ [][Next]_vars

\* The sequential use of the store: one server render, the hydration of the
\* mounted list, then fetchNextPage one call at a time while hasNextPage.
SeqNext ==
  \/ (lastOp = "init" /\ BlogPageContent)
  \/ (lastOp = "render" /\ BlogPostItems)
  \/ (lastOp \notin {"init", "render"} /\ ~isLoading /\ hasNextPage /\ fetchNextPage)
  \/ \E i \in DOMAIN fetches : fetchNextPageResolved(i)
  \/ \E i \in DOMAIN fetches : fetchNextPageRejected(i)

SeqSpec ==
  InitWith(UpstreamsOf(MaxPages, 1) \cup {EmptyListing}) /\ [][SeqNext]_vars


\* ---------------------------------------------------------- slug enumerator
\* A budget of requests, above what any listing of MaxPages pages asks for:
\* it stops only a loop that would otherwise go on for ever.
MaxRequests == MaxPages + 2

\* nodes.map((node) => node.slug)
SlugsOf(nodes) == [j \in DOMAIN nodes |-> nodes[j].slug]

\* The POST of one GetAllPostSlugs query with variables {first, after}.
EnumSend(after) ==
  /\ enumRequests' = Append(enumRequests, after)
  /\ enumPc' = "await"

\* fetchAllPostSlugsDirect / fetchAllPostSlugs, up to the first await: the
\* locals are initialised, the loop is entered and the first query is sent.
fetchAllPostSlugsDirect ==
  /\ enumPc = "idle"
  /\ enumSlugs' = <<>>
  /\ enumHasNextPage' = TRUE
  /\ enumEndCursor' = Null
  /\ EnumSend(Null)
  /\ UNCHANGED <<up, storeVars, pageVars, svcVars, enumResponses>>

\* A loop body that pushes the slugs but never moves the cursor on.
EnumPageResponseStaleCursor ==
  /\ enumPc = "await"
  /\ LET response == Posts(enumRequests[Len(enumRequests)])
         nodes == response.nodes
         pageInfo == response.pageInfo
     IN /\ pageInfo.hasNextPage => Len(enumRequests) < MaxRequests
        /\ enumResponses' = Append(enumResponses, [kind |-> "page", pageInfo |-> pageInfo])
        /\ enumSlugs' = enumSlugs \o SlugsOf(nodes)
        /\ enumHasNextPage' = pageInfo.hasNextPage
        /\ UNCHANGED enumEndCursor
        /\ IF pageInfo.hasNextPage
             THEN EnumSend(enumEndCursor)
             ELSE enumPc' = "returned" /\ UNCHANGED enumRequests
  /\ UNCHANGED <<up, storeVars, pageVars, svcVars>>

\* A loop body that never takes hasNextPage from the page.
EnumPageResponseKeepsGoing ==
  /\ enumPc = "await"
  /\ Len(enumRequests) < MaxRequests
  /\ LET response == Posts(enumRequests[Len(enumRequests)])
         nodes == response.nodes
         pageInfo == response.pageInfo
     IN /\ enumResponses' = Append(enumResponses, [kind |-> "page", pageInfo |-> pageInfo])
        /\ enumSlugs' = enumSlugs \o SlugsOf(nodes)
        /\ UNCHANGED enumHasNextPage
        /\ enumEndCursor' = pageInfo.endCursor
        /\ EnumSend(pageInfo.endCursor)
  /\ UNCHANGED <<up, storeVars, pageVars, svcVars>>

\* A loop body with a guard on the cursor: a page that reports a next page
\* behind the cursor it was asked with ends the enumeration in failure.
EnumPageResponseGuarded ==
  /\ enumPc = "await"
  /\ LET response == Posts(enumRequests[Len(enumRequests)])
         nodes == response.nodes
         pageInfo == response.pageInfo
         stuck == pageInfo.hasNextPage /\ pageInfo.endCursor <= enumRequests[Len(enumRequests)]
     IN /\ (pageInfo.hasNextPage /\ ~stuck) => Len(enumRequests) < MaxRequests
        /\ enumResponses' = Append(enumResponses, [kind |-> "page", pageInfo |-> pageInfo])
        /\ enumSlugs' = enumSlugs \o SlugsOf(nodes)
        /\ enumHasNextPage' = pageInfo.hasNextPage
        /\ enumEndCursor' = pageInfo.endCursor
        /\ IF stuck THEN enumPc' = "failed" /\ UNCHANGED enumRequests
           ELSE IF pageInfo.hasNextPage
             THEN EnumSend(pageInfo.endCursor)
             ELSE enumPc' = "returned" /\ UNCHANGED enumRequests
  /\ UNCHANGED <<up, storeVars, pageVars, svcVars>>

\* The loop body after the await, the query answered with a page: push the
\* page's slugs, take hasNextPage and endCursor from it, then either send
\* the next query or leave the loop and return slugs.
EnumPageResponse ==
  /\ enumPc = "await"
  /\ LET response == Posts(enumRequests[Len(enumRequests)])
         nodes == response.nodes
         pageInfo == response.pageInfo
     IN /\ pageInfo.hasNextPage => Len(enumRequests) < MaxRequests
        /\ enumResponses' = Append(enumResponses, [kind |-> "page", pageInfo |-> pageInfo])
        /\ enumSlugs' = enumSlugs \o SlugsOf(nodes)
        /\ enumHasNextPage' = pageInfo.hasNextPage
        /\ enumEndCursor' = pageInfo.endCursor
        /\ IF pageInfo.hasNextPage
             THEN EnumSend(pageInfo.endCursor)
             ELSE enumPc' = "returned" /\ UNCHANGED enumRequests
  /\ UNCHANGED <<up, storeVars, pageVars, svcVars>>

\* A failure handler that swallows the error and returns the slugs so far.
EnumFailedResponseReturningPartial(kind) ==
  /\ enumPc = "await"
  /\ enumResponses' = Append(enumResponses, [kind |-> kind, pageInfo |-> [hasNextPage |-> FALSE, endCursor |-> Null]])
  /\ enumPc' = "returned"
  /\ UNCHANGED <<up, storeVars, pageVars, svcVars, enumSlugs, enumHasNextPage,
                 enumEndCursor, enumRequests>>

\* The loop body after the await, the query not answered with a page: the
\* fetch or res.json() rejects ("rejected"), the body carries `errors`
\* ("errors": the throw of the errors check), or it carries neither errors
\* nor data.posts ("malformed": the destructuring throws).  The function
\* throws; slugs is dropped with its frame.
EnumFailedResponse(kind) ==
  /\ enumPc = "await"
  /\ enumResponses' = Append(enumResponses, [kind |-> kind, pageInfo |-> [hasNextPage |-> FALSE, endCursor |-> Null]])
  /\ enumPc' = "failed"
  /\ UNCHANGED <<up, storeVars, pageVars, svcVars, enumSlugs, enumHasNextPage,
                 enumEndCursor, enumRequests>>

EnumNext ==
  \/ fetchAllPostSlugsDirect
  \/ EnumPageResponse
  \/ \E kind \in {"rejected", "errors", "malformed"} : EnumFailedResponse(kind)

EnumInit == InitWith(EnumUpstreams)

EnumSpec == EnumInit /\ [][EnumNext]_vars

\* Every request that is sent is eventually answered, and the enumerator,
\* once asked for, runs.
EnumFairSpec == EnumSpec /\ WF_vars(EnumNext)

\* ------------------------------------------------------------------ claims
\* The store's items, endCursor and hasNextPage are as call i found them.
Untouched(i) ==
  /\ items = fetches[i].pre.items
  /\ endCursor = fetches[i].pre.endCursor
  /\ hasNextPage = fetches[i].pre.hasNextPage

\* s is an initial segment of t.
IsPrefix(s, t) == Len(s) <= Len(t) /\ SubSeq(t, 1, Len(s)) = s

\* C1: a fetchNextPage invoked while isLoading is true calls no fetch, so at
\* most one page fetch of the store is outstanding at any time.
C1_AtMostOneFetchOutstanding ==
  /\ Cardinality(Pending) <= 1
  /\ \A i \in Pending : ~fetches[i].pre.isLoading

\* C2: no two page fetches carry the same endCursor, and the items are the
\* fetched pages in cursor order: an initial segment of the listing, no page
\* twice, none out of order.
C2_PagesInCursorOrder ==
  /\ \A i, j \in Pending : i # j => fetches[i].cursor # fetches[j].cursor
  /\ IsPrefix(items, Flatten(up))

\* C3: when the fetch of a fetchNextPage call rejects, the completing step
\* leaves items, endCursor and hasNextPage as they are and clears isLoading;
\* so a call that found the store at (I, c, h) and was not overtaken by
\* another write leaves it at (I, c, h), with no state other than the four
\* fields.
C3_FailurePreservesState ==
  [][\A i \in DOMAIN fetches :
       (fetches[i].st = "pending" /\ fetches'[i].st = "failed") =>
          /\ items' = items
          /\ endCursor' = endCursor
          /\ hasNextPage' = hasNextPage
          /\ isLoading' = FALSE
          /\ Untouched(i) =>
               /\ items' = fetches[i].pre.items
               /\ endCursor' = fetches[i].pre.endCursor
               /\ hasNextPage' = fetches[i].pre.hasNextPage]_vars

\* C3 witness: a fetch has just failed in a store that holds items, a cursor
\* and hasNextPage = FALSE.
C3_Witness ==
  /\ lastOp = "rejected"
  /\ Len(items) > 0
  /\ endCursor # Null
  /\ ~hasNextPage
  /\ ~isLoading

\* C4: a fetchNextPage call issues exactly one fetch, with the endCursor the
\* store holds at the call; when that fetch resolves with the page
\* {items: P, endCursor: c', hasNextPage: h} the step appends P to the items
\* in the order returned, sets endCursor = c', hasNextPage = h and
\* isLoading = FALSE; so a call that found items = I, not overtaken by
\* another write, ends with items = I followed by P.
C4_SuccessAppendsPage ==
  [][/\ Len(fetches') \in {Len(fetches), Len(fetches) + 1}
     /\ Len(fetches') = Len(fetches) + 1 =>
          /\ fetches'[Len(fetches')].cursor = endCursor
          /\ fetches'[Len(fetches')].st = "pending"
     /\ \A i \in DOMAIN fetches :
          /\ fetches'[i].cursor = fetches[i].cursor
          /\ (fetches[i].st = "pending" /\ fetches'[i].st = "ok") =>
               LET page == fetchFunction(fetches[i].cursor) IN
                 /\ Len(fetches') = Len(fetches)
                 /\ items' = items \o page.items
                 /\ endCursor' = page.endCursor
                 /\ hasNextPage' = page.hasNextPage
                 /\ isLoading' = FALSE
                 /\ Untouched(i) =>
                      /\ fetches[i].cursor = fetches[i].pre.endCursor
                      /\ items' = fetches[i].pre.items \o page.items]_vars

\* C4 witness: the last page has just been appended behind earlier items.
C4_Witness ==
  /\ lastOp = "resolved"
  /\ Len(up) = 2
  /\ Len(up[1].nodes) = 2
  /\ Len(up[2].nodes) = 2
  /\ items = Flatten(up)
  /\ endCursor = 2
  /\ ~hasNextPage
  /\ ~isLoading

\* C5: resetPagination can always run and leaves exactly items = [],
\* endCursor = null, hasNextPage = true, isLoading = false.
C5_ResetYieldsInitialState ==
  /\ ENABLED resetPagination
  /\ lastOp = "reset" => State = InitialState

\* C5 witness: a reset has run while a fetch was outstanding and an earlier
\* one had appended its page.
C5_Witness ==
  /\ lastOp = "reset"
  /\ Pending # {}
  /\ \E i \in DOMAIN fetches :
       fetches[i].st = "ok" /\ fetchFunction(fetches[i].cursor).items # <<>>

\* C6: no page is requested while hasNextPage is false: every fetch was
\* issued by a call that found hasNextPage = true.
C6_NoFetchWhenExhausted ==
  \A i \in Pending : fetches[i].pre.hasNextPage

\* C7: the seeded first page followed by fetchNextPage, one call at a time,
\* until hasNextPage is false leaves every post of the listing in items
\* exactly once, in listing order.
C7_EveryPostExactlyOnce ==
  (lastOp \notin {"init", "render"} /\ ~hasNextPage /\ Pending = {}) =>
     items = Flatten(up)

\* C8: seeding overwrites the store with the first page P and carries P's
\* pagination fields: on the server after the render, and on the client after
\* the hydration has written a first page that holds posts.
C8_SeedCarriesPage ==
  /\ props.rendered =>
       /\ server.items = props.initialPosts
       /\ server.endCursor = props.initialEndCursor
       /\ server.hasNextPage = props.hasNextPage
  /\ (lastOp = "hydrate" /\ Len(props.initialPosts) > 0) =>
       /\ items = props.initialPosts
       /\ endCursor = props.initialEndCursor
       /\ hasNextPage = props.hasNextPage

\* C9: against a listing of k pages that reports hasNextPage = false on the
\* last page only, the enumerator sends its first request with cursor null
\* and every later one with the endCursor of the page before, and it returns
\* after exactly k requests with all pages' slugs in page order.
C9_EnumeratesAllSlugs ==
  /\ \A n \in DOMAIN enumRequests :
       enumRequests[n] =
         IF n = 1 THEN Null ELSE enumResponses[n - 1].pageInfo.endCursor
  /\ enumPc = "returned" =>
       /\ Len(enumRequests) = Len(up)
       /\ enumSlugs = SlugsOf(Flatten(up))

\* C9 witness: the three-page listing of sizes 2, 2, 1 has been enumerated.
C9_Witness ==
  /\ enumPc = "returned"
  /\ Len(up) = 3
  /\ Len(up[1].nodes) = 2 /\ Len(up[2].nodes) = 2 /\ Len(up[3].nodes) = 1
  /\ enumRequests = <<Null, 1, 2>>
  /\ Len(enumSlugs) = 5

EnumTerminated == enumPc \in {"returned", "failed"}

\* C10: with every request answered, the running enumerator terminates, and
\* the first page that reports hasNextPage = false is the last one requested.
C10_EnumeratorTerminates ==
  /\ (enumPc = "await") ~> EnumTerminated
  /\ [](\A n \in DOMAIN enumResponses :
          (enumResponses[n].kind = "page" /\ ~enumResponses[n].pageInfo.hasNextPage) =>
             /\ Len(enumRequests) = n
             /\ enumPc = "returned")

\* C10 witness: the enumerator has returned after the last of several pages.
C10_Witness ==
  /\ enumPc = "returned"
  /\ Len(enumResponses) = MaxPages
  /\ ~enumResponses[MaxPages].pageInfo.hasNextPage
  /\ \A n \in 1..(MaxPages - 1) : enumResponses[n].pageInfo.hasNextPage

\* C11: a request of the enumerator that fails (rejected transport or
\* unparsable body, `errors` in the body, no data in the body) ends the
\* enumeration in failure at that page: it is the last request, and nothing
\* is returned, whatever earlier pages delivered.
C11_FailureAbortsEnumeration ==
  /\ \A n \in DOMAIN enumResponses :
       enumResponses[n].kind # "page" =>
          /\ enumPc = "failed"
          /\ Len(enumRequests) = n
          /\ Len(enumResponses) = n
  /\ enumPc = "returned" =>
       \A n \in DOMAIN enumResponses : enumResponses[n].kind = "page"

\* C11 witness: the third request failed on `errors` after two pages of slugs.
C11_Witness ==
  /\ enumPc = "failed"
  /\ Len(enumResponses) = 3
  /\ enumResponses[3].kind = "errors"
  /\ Len(enumSlugs) = 4

\* ------------------------------------------------------- client behaviours
ClientInit == InitWith({EmptyListing})

ClientNext ==
  \/ CallGraphqlFetchBlogPosts
  \/ CallFetchBlogPostsDirect
  \/ CallApiFetchBlogPosts
  \/ CallGraphqlFetchSinglePostBySlug
  \/ CallApiFetchSinglePostBySlug
  \/ SinglePost

ClientSpec == ClientInit /\ [][ClientNext]_vars

\* The response reached the client with a success status and a parsable body.
Answered(r) == r.transport = "completes" /\ Ok(r) /\ r.parses

\* C12: a success response whose body has a non-empty `errors` array makes
\* the post fetch client (the GraphQL fetchBlogPosts, fetchBlogPostsDirect)
\* end in failure, as it does the slug enumerator: no page result is returned
\* for it.
C12_ErrorsFailTheFetchClient ==
  /\ ( /\ svcCall.fn \in {"graphqlFetchBlogPosts", "fetchBlogPostsDirect"}
       /\ Answered(svcCall.response)
       /\ svcCall.response.errors )
     => svcOutcome.kind = "rejected"
  /\ \A n \in DOMAIN enumResponses :
       enumResponses[n].kind = "errors" => enumPc = "failed"

\* C13: a post fetch client (the GraphQL fetchBlogPosts, the endpoint
\* fetchBlogPosts) rejects when the transport call does not complete or
\* returns a non-success status.
C13_TransportFailureRejects ==
  ( /\ svcCall.fn \in {"graphqlFetchBlogPosts", "apiFetchBlogPosts"}
    /\ \/ svcCall.response.transport = "rejects"
       \/ ~Ok(svcCall.response) )
  => svcOutcome.kind = "rejected"

\* C14: a success response without the expected shape (no post nodes or no
\* pageInfo) makes the post fetch client reject; no Page Result is built
\* from defaults.
C14_MalformedResponseRejects ==
  ( /\ svcCall.fn \in {"graphqlFetchBlogPosts", "fetchBlogPostsDirect"}
    /\ Answered(svcCall.response)
    /\ ~svcCall.response.errors
    /\ svcCall.response.shape # "full" )
  => svcOutcome.kind = "rejected"

\* The upstream answered the single-post query with data.post null.
NoMatchingPost(r) == Answered(r) /\ r.shape # "noData" /\ r.post = Null

\* C15: when the upstream reports no matching post, the GraphQL
\* fetchSinglePostBySlug returns a null post without failing, the endpoint
\* fetchSinglePostBySlug returns null for the endpoint's not-found answer,
\* and the single-post page takes its notFound() branch.
C15_MissingPostIsNotFound ==
  /\ ( svcCall.fn = "graphqlFetchSinglePostBySlug" /\ NoMatchingPost(svcCall.response) )
     => ( svcOutcome.kind = "returned" /\ svcOutcome.post = Null )
  /\ ( /\ svcCall.fn = "apiFetchSinglePostBySlug"
       /\ svcCall.response.transport = "completes"
       /\ svcCall.response.status = 404 )
     => svcOutcome.kind = "null"
  /\ ( svcCall.fn = "SinglePost" /\ NoMatchingPost(svcCall.response) )
     => svcOutcome.kind = "notFound"

\* C15 witness: the page was requested for a slug the upstream has no post for.
C15_Witness ==
  /\ svcCall.fn = "SinglePost"
  /\ NoMatchingPost(svcCall.response)
  /\ ~svcCall.response.errors
  /\ svcOutcome.kind = "notFound"

\* C16: fetchSinglePostBySlug fails when its transport call does not
\* complete or is answered with a server-error status; it does not report
\* not-found for it.
C16_TransportFailureIsNotNotFound ==
  ( /\ svcCall.fn \in {"graphqlFetchSinglePostBySlug", "apiFetchSinglePostBySlug"}
    /\ \/ svcCall.response.transport = "rejects"
       \/ svcCall.response.status = 500 )
  => svcOutcome.kind = "rejected"

\* ------------------------------------------------------------ sparse pages
\* Listings with a page that holds no post but reports a next page.
SparseUpstreams ==
  { u \in UpstreamsOf(MaxPages, 0) :
      \E i \in DOMAIN u : u[i].nodes = <<>> /\ u[i].pageInfo.hasNextPage }

\* The consumers of such a listing: the blog page with its store in one run,
\* the build-time slug enumerator in another.
SparseNext ==
  \/ (enumPc = "idle" /\ SeqNext)
  \/ (lastOp = "init" /\ EnumNext)

SparseSpec == InitWith(SparseUpstreams) /\ [][SparseNext]_vars

\* The result is a page without items that reports a next page.
EmptyPageWithNext(page) == page.items = <<>> /\ page.hasNextPage

\* The blog page was rendered from a first page without posts and with a
\* next page.
SeededFromEmptyPage ==
  props.rendered /\ props.initialPosts = <<>> /\ props.hasNextPage

\* C17: a page with empty items and hasNextPage = TRUE is a valid page for
\* every consumer.  The store's success branch leaves items as they are,
\* adopts the page's endCursor and has hasNextPage = TRUE; the slug
\* enumerator sends its next query with the page's endCursor; a store seeded
\* from such a first page can go on: the server-side store holds the page's
\* endCursor, the mounted store fetches the empty page and from its
\* endCursor the page after it, and ends with every post of the listing.
C17_EmptyPageIsValid ==
  /\ [][\A i \in DOMAIN fetches :
          ( /\ fetches[i].st = "pending"
            /\ fetches'[i].st = "ok"
            /\ EmptyPageWithNext(fetchFunction(fetches[i].cursor)) ) =>
          /\ items' = items
          /\ endCursor' = fetchFunction(fetches[i].cursor).endCursor
          /\ hasNextPage' = TRUE
          /\ isLoading' = FALSE]_vars
  /\ [](\A n \in DOMAIN enumResponses :
          ( /\ enumResponses[n].kind = "page"
            /\ EmptyPageWithNext(fetchBlogPosts(enumRequests[n])) ) =>
          /\ Len(enumRequests) > n
          /\ enumRequests[n + 1] = fetchBlogPosts(enumRequests[n]).endCursor)
  /\ []( SeededFromEmptyPage =>
          /\ server.items = <<>>
          /\ server.hasNextPage
          /\ server.endCursor = up[1].pageInfo.endCursor
          /\ lastOp = "hydrate" =>
               /\ hasNextPage /\ ~isLoading
               /\ EmptyPageWithNext(fetchFunction(endCursor))
               /\ fetchFunction(fetchFunction(endCursor).endCursor) =
                    fetchBlogPosts(up[1].pageInfo.endCursor)
          /\ (lastOp \notin {"init", "render"} /\ ~hasNextPage /\ Pending = {}) =>
               items = Flatten(up) )

\* C17 witness: the store holds posts and has just taken in a page without
\* items that reports a next page.
C17_Witness ==
  /\ lastOp = "resolved"
  /\ items # <<>>
  /\ hasNextPage
  /\ fetches[Len(fetches)].st = "ok"
  /\ EmptyPageWithNext(fetchFunction(fetches[Len(fetches)].cursor))
  /\ endCursor = fetchFunction(fetches[Len(fetches)].cursor).endCursor

\* ------------------------------------------------- an upstream without end
\* Upstreams that break the cursor contract: every page reports a next page,
\* and its endCursor leads to any page of the listing, itself included.
LoopUpstreams ==
  UNION { { [i \in 1..k |->
               [nodes |-> <<Node(i)>>,
                pageInfo |-> [hasNextPage |-> TRUE, endCursor |-> c[i]]]] :
              c \in [1..k -> 0..(k - 1)] } :
          k \in 1..MaxPages }

\* Such an upstream answers every query with a page.
LoopNext ==
  \/ fetchAllPostSlugsDirect
  \/ EnumPageResponse

LoopInit == InitWith(LoopUpstreams)

LoopSpec == LoopInit /\ [][LoopNext]_vars

\* C18: the enumeration loop has no iteration cap.  Against an upstream that
\* reports hasNextPage = TRUE on every response, with a cursor that advances
\* or not, the enumerator neither returns nor fails; every response is
\* followed by one more request, and short of the request budget of the
\* model the loop can always take its next step.
C18_NoIterationCap ==
  /\ [](/\ enumPc \in {"idle", "await"}
        /\ enumPc = "await" =>
             /\ Len(enumRequests) = Len(enumResponses) + 1
             /\ enumHasNextPage
             /\ Len(enumRequests) < MaxRequests => ENABLED EnumPageResponse)
  /\ [][enumResponses' # enumResponses =>
          /\ Len(enumRequests') = Len(enumRequests) + 1
          /\ enumPc' = "await"]_vars

\* C18 witness: the loop has used up the request budget and still waits for
\* a page, on an upstream whose cursor does not advance.
C18_Witness ==
  /\ enumPc = "await"
  /\ Len(enumRequests) = MaxRequests
  /\ Len(enumResponses) = MaxRequests - 1
  /\ Len(up) = 1

\* ------------------------------------------------ loading flag, late results
\* C19 as stated: in every reachable store state isLoading is TRUE if and
\* only if a fetch started by fetchNextPage is still outstanding.
C19_LoadingIffOutstanding == isLoading <=> (Pending # {})

\* C19 as amended: isLoading = TRUE only while a fetch started by
\* fetchNextPage is outstanding, namely the one of the latest call; the flag
\* may be FALSE although a fetch is outstanding.
C19_LoadingImpliesOutstanding ==
  isLoading => ( /\ Pending # {}
                 /\ fetches[Len(fetches)].st = "pending" )

\* C19 witness: a fetch is outstanding with isLoading = TRUE after an earlier
\* call has completed.
C19_Witness ==
  /\ isLoading
  /\ Pending = {Len(fetches)}
  /\ Len(fetches) > 1

\* C20: when resetPagination or a re-seeding has happened while a fetch of
\* fetchNextPage is outstanding, the late completion of that fetch leaves
\* items, endCursor and hasNextPage as the reset or the seeding set them.
C20_LateCompletionIgnored ==
  [][\A i \in DOMAIN fetches :
       ( /\ fetches[i].st = "pending"
         /\ fetches'[i].st # "pending"
         /\ lastOp \in {"reset", "hydrate"} ) =>
       /\ items' = items
       /\ endCursor' = endCursor
       /\ hasNextPage' = hasNextPage]_vars

====
